---- MODULE Spec2Model ----
(***************************************************************************)
(* State-machine model of the chat composer widget TextInput               *)
(* (src/components/inputs/textInput/components/TextInput.tsx).             *)
(*                                                                         *)
(* Texts are sequences of characters, so that slicing, length and trimming *)
(* are computed and not assumed.  Optional props are None (undefined) or   *)
(* Some(v).  Every DOM event is one action that runs its whole handler.    *)
(* The variable last records the event handled last and, in order, the     *)
(* outward calls its handler made.                                         *)
(***************************************************************************)
EXTENDS Integers, Sequences, FiniteSets, TLC

VARIABLES
    props,                 \* the props the handlers read (Props, lines 9-27)
    pc,                    \* "constructed", then "mounted" once onMount ran
    inputValue,            \* signal inputValue (line 34)
    isSendButtonDisabled,  \* signal isSendButtonDisabled (line 35)
    warningMessage,        \* signal warningMessage (line 36)
    audioRef,              \* audioRef (line 40): None or Some(source)
    fieldValue,            \* content of the native field behind inputRef
    selectionStart,        \* inputRef.selectionStart (line 82)
    last                   \* the event handled last and the calls it made

vars == <<props, pc, inputValue, isSendButtonDisabled, warningMessage,
          audioRef, fieldValue, selectionStart, last>>

(* ------------------------------ bounds -------------------------------- *)

\* longest content of the native field that is explored
MaxLen == 2

(* ------------------------- values and helpers ------------------------- *)

None == <<>>

Some(v) == <<v>>

\* JavaScript a ?? b
Coalesce(opt, default) == IF opt = None THEN default ELSE opt[1]

Chars == {"a", " "}

Strings == UNION {[1..n -> Chars] : n \in 0..MaxLen}

\* String.prototype.slice(from) and slice(from, to) with 0-based indices,
\* both clamped to the length as JavaScript clamps them
Min(a, b) == IF a < b THEN a ELSE b

Slice(s, from, to) ==
    LET f == Min(from, Len(s))
        t == Min(to, Len(s))
    IN  IF f >= t THEN <<>> ELSE SubSeq(s, f + 1, t)

SliceFrom(s, from) == Slice(s, from, Len(s))

defaultSendSound == "send_message.mp3"

MaxCharsValues == {None} \cup {Some(n) : n \in 0..(MaxLen - 1)}

WarningProps == {None, Some(""), Some("Too long")}

SoundLocations == {None, Some(""), Some("custom.mp3")}

DefaultValues == {None} \cup {Some(s) : s \in Strings}

PropsSet ==
    [disabled : BOOLEAN,
     maxChars : MaxCharsValues,
     maxCharsWarningMessage : WarningProps,
     sendMessageSound : BOOLEAN]

\* the legacy key code browsers report while an IME composes
IMEKeyCode == 229

\* the KeyboardEvent fields the handlers read: a key event carries the
\* key code of its key (13 for Enter, 8 for Backspace) or, while an IME
\* composes, 229
KeyEvents ==
    {e \in [key : {"Enter", "Backspace"},
            isComposing : BOOLEAN,
            keyCode : {8, 13, IMEKeyCode}] :
        e.keyCode \in {IF e.key = "Enter" THEN 13 ELSE 8, IMEKeyCode}}

NoKey == [key |-> "", isComposing |-> FALSE, keyCode |-> 0]

\* A call made by a handler: the callee, its text argument, its outcome
Call(callee, arg, ok) == [call |-> callee, arg |-> arg, ok |-> ok]

\* The component's reactive state together with the native field
St ==
    [inputValue |-> inputValue,
     isSendButtonDisabled |-> isSendButtonDisabled,
     warningMessage |-> warningMessage,
     fieldValue |-> fieldValue,
     selectionStart |-> selectionStart,
     effects |-> <<>>]

\* props.maxChars is used as a condition: undefined and 0 are falsy
MaxCharsSet(p) == p.maxChars # None /\ p.maxChars[1] # 0

LimitWarning(p) ==
    Coalesce(p.maxCharsWarningMessage,
             "You exceeded the characters limit. Please input less than "
                 \o ToString(p.maxChars[1]) \o " characters.")

\* setInputValue: a signal notifies only when its value changes; the
\* field's value binding then rewrites the native field, which puts
\* the cursor at the end
setInputValue(s, v) ==
    IF v = s.inputValue
    THEN s
    ELSE [s EXCEPT !.inputValue = v, !.fieldValue = v,
                   !.selectionStart = Len(v)]

(* ------------------------------ handlers ------------------------------ *)

\* handleInput with the limit compared by >= : a text of exactly maxChars
\* characters is rejected
handleInputOffByOne(s, p, newValue) ==
    LET wordCount == Len(newValue)
    IN  IF MaxCharsSet(p) /\ wordCount >= p.maxChars[1]
        THEN [s EXCEPT !.warningMessage = LimitWarning(p),
                       !.isSendButtonDisabled = TRUE]
        ELSE [setInputValue(s, newValue) EXCEPT
                       !.warningMessage = "",
                       !.isSendButtonDisabled = FALSE]

handleInput(s, p, newValue) ==
    LET wordCount == Len(newValue)
    IN  IF MaxCharsSet(p) /\ wordCount > p.maxChars[1]
        THEN [s EXCEPT !.warningMessage = LimitWarning(p),
                       !.isSendButtonDisabled = TRUE]
        ELSE [setInputValue(s, newValue) EXCEPT
                       !.warningMessage = "",
                       !.isSendButtonDisabled = FALSE]

\* checkIfInputIsValid that asks the field and drops its answer
checkIgnoringValidity(s, valid) ==
    s.inputValue # <<>> /\ s.warningMessage = ""

\* valid is what the field's reportValidity() answers; && short-circuits,
\* so the field is asked only when the first two conditions hold
checkIfInputIsValid(s, valid) ==
    s.inputValue # <<>> /\ s.warningMessage = "" /\ valid

ValidityCalls(s, valid) ==
    IF s.inputValue # <<>> /\ s.warningMessage = ""
    THEN <<Call("reportValidity", <<>>, valid)>>
    ELSE <<>>

\* submit that resets the text before it calls onSubmit
submitClearsFirst(s, p, a, valid, playOk) ==
    IF checkIfInputIsValid(s, valid)
    THEN LET t == setInputValue(s, <<>>)
             called == ValidityCalls(s, valid)
                           \o <<Call("setInputValue", <<>>, TRUE),
                                Call("onSubmit", t.inputValue, TRUE)>>
         IN  [t EXCEPT !.effects =
                 IF p.sendMessageSound /\ a # None
                 THEN called \o <<Call("play", <<>>, playOk)>>
                 ELSE called]
    ELSE [s EXCEPT !.effects = ValidityCalls(s, valid)]

\* submit in which a failure of play() ends the handler before the reset
submitAbortedByPlay(s, p, a, valid, playOk) ==
    IF checkIfInputIsValid(s, valid)
    THEN LET called == ValidityCalls(s, valid)
                           \o <<Call("onSubmit", s.inputValue, TRUE)>>
         IN  IF p.sendMessageSound /\ a # None
             THEN IF playOk
                  THEN [setInputValue(s, <<>>) EXCEPT
                           !.effects = called
                               \o <<Call("play", <<>>, TRUE),
                                    Call("setInputValue", <<>>, TRUE)>>]
                  ELSE [s EXCEPT !.effects =
                           called \o <<Call("play", <<>>, FALSE)>>]
             ELSE [setInputValue(s, <<>>) EXCEPT
                      !.effects = called
                          \o <<Call("setInputValue", <<>>, TRUE)>>]
    ELSE [s EXCEPT !.effects = ValidityCalls(s, valid)]

\* a is audioRef; playOk tells whether the promise of play() resolves.  A
\* rejected promise is not awaited and raises nothing in the handler.
submit(s, p, a, valid, playOk) ==
    IF checkIfInputIsValid(s, valid)
    THEN LET called == ValidityCalls(s, valid)
                           \o <<Call("onSubmit", s.inputValue, TRUE)>>
             played == IF p.sendMessageSound /\ a # None
                       THEN called \o <<Call("play", <<>>, playOk)>>
                       ELSE called
         IN  [setInputValue(s, <<>>) EXCEPT
                 !.effects = played \o <<Call("setInputValue", <<>>, TRUE)>>]
    ELSE [s EXCEPT !.effects = ValidityCalls(s, valid)]

\* isIMEComposition that reads the composing flag alone
isComposingOnly(e) == e.isComposing

isIMEComposition(e) == e.isComposing \/ e.keyCode = IMEKeyCode

submitWhenEnter(s, p, a, e, valid, playOk) ==
    IF e.key = "Enter" /\ ~isIMEComposition(e) /\ s.warningMessage = ""
    THEN submit(s, p, a, valid, playOk)
    ELSE s

deleteCharacter(s) ==
    LET currentInputValue == s.inputValue
        cursorPosition == s.selectionStart
    IN  IF cursorPosition > 0
        THEN LET newValue == Slice(currentInputValue, 0, cursorPosition - 1)
                                 \o SliceFrom(currentInputValue, cursorPosition)
                 t == setInputValue(s, newValue)
             IN  \* setSelectionRange clamps to the field's length
                 [t EXCEPT !.selectionStart =
                               Min(cursorPosition - 1, Len(t.fieldValue))]
        ELSE s

handleKeyPress(s, e) ==
    IF e.key = "Backspace" THEN deleteCharacter(s) ELSE s

\* The send control is rendered disabled while the widget is disabled or
\* isSendButtonDisabled() holds; a disabled button dispatches no click.
sendControl(s, p, a, valid, playOk) ==
    IF p.disabled \/ s.isSendButtonDisabled
    THEN s
    ELSE submit(s, p, a, valid, playOk)

(* ------------------------------ actions ------------------------------- *)

Init ==
    /\ props \in PropsSet
    /\ pc = "constructed"
    /\ \E defaultValue \in DefaultValues :
           /\ inputValue = Coalesce(defaultValue, <<>>)
           /\ fieldValue = inputValue
           /\ selectionStart = Len(inputValue)
    /\ isSendButtonDisabled = FALSE
    /\ warningMessage = ""
    /\ audioRef = None
    /\ last = [type |-> "none", e |-> NoKey, arg |-> <<>>, effects |-> <<>>]

\* the event of type ty (key event e, text arg) was handled and left the
\* state r
Handled(r, ty, e, arg) ==
    /\ inputValue' = r.inputValue
    /\ isSendButtonDisabled' = r.isSendButtonDisabled
    /\ warningMessage' = r.warningMessage
    /\ fieldValue' = r.fieldValue
    /\ selectionStart' = r.selectionStart
    /\ last' = [type |-> ty, e |-> e, arg |-> arg, effects |-> r.effects]
    /\ UNCHANGED <<props, pc>>

Mount ==
    /\ pc = "constructed"
    /\ pc' = "mounted"
    /\ \E sendSoundLocation \in SoundLocations :
           audioRef' =
               IF props.sendMessageSound
               THEN IF sendSoundLocation # None /\ sendSoundLocation[1] # ""
                    THEN Some(sendSoundLocation[1])
                    ELSE Some(defaultSendSound)
               ELSE None
    /\ last' = [type |-> "mount", e |-> NoKey, arg |-> <<>>, effects |-> <<>>]
    /\ UNCHANGED <<props, inputValue, isSendButtonDisabled, warningMessage,
                   fieldValue, selectionStart>>

\* the user edits the field: the browser has put newValue in the field
\* when the input event reaches handleInput
Input ==
    /\ pc = "mounted" /\ ~props.disabled
    /\ \E newValue \in Strings :
           Handled(handleInput([St EXCEPT !.fieldValue = newValue,
                                          !.selectionStart = Len(newValue)],
                               props, newValue),
                   "input", NoKey, newValue)
    /\ UNCHANGED audioRef

\* the user moves the caret in the field; no handler listens
MoveCursor ==
    /\ pc = "mounted" /\ ~props.disabled
    /\ \E pos \in 0..Len(fieldValue) :
           /\ pos # selectionStart
           /\ Handled([St EXCEPT !.selectionStart = pos], "select", NoKey, <<>>)
    /\ UNCHANGED audioRef

KeyDown ==
    /\ pc = "mounted" /\ ~props.disabled
    /\ \E e \in KeyEvents, valid \in BOOLEAN, playOk \in BOOLEAN :
           Handled(submitWhenEnter(St, props, audioRef, e, valid, playOk),
                   "keydown", e, <<>>)
    /\ UNCHANGED audioRef

KeyPress ==
    /\ pc = "mounted" /\ ~props.disabled
    /\ \E e \in KeyEvents : Handled(handleKeyPress(St, e), "keypress", e, <<>>)
    /\ UNCHANGED audioRef

SendClick ==
    /\ pc = "mounted"
    /\ \E valid \in BOOLEAN, playOk \in BOOLEAN :
           Handled(sendControl(St, props, audioRef, valid, playOk),
                   "click", NoKey, <<>>)
    /\ UNCHANGED audioRef

Next == Mount \/ Input \/ MoveCursor \/ KeyDown \/ KeyPress \/ SendClick

Spec == Init /\ [][Next]_vars

(* ------------------- vocabulary of the properties --------------------- *)

CallsTo(callee, eff) == SelectSeq(eff, LAMBDA c : c.call = callee)

\* positions in eff of the calls to callee
Positions(callee, eff) == {i \in 1..Len(eff) : eff[i].call = callee}

\* the field answered reportValidity() with FALSE
FieldSaidInvalid(eff) ==
    \E i \in 1..Len(eff) : eff[i].call = "reportValidity" /\ ~eff[i].ok

PlayRejected(eff) ==
    \E i \in 1..Len(eff) : eff[i].call = "play" /\ ~eff[i].ok

\* the step handles an Enter key-down outside an IME composition
EnterStep ==
    /\ last'.type = "keydown"
    /\ last'.e.key = "Enter"
    /\ ~last'.e.isComposing
    /\ last'.e.keyCode # IMEKeyCode

\* the step handles an Enter key-down during an IME composition
ComposingEnterStep ==
    /\ last'.type = "keydown"
    /\ last'.e.key = "Enter"
    /\ (last'.e.isComposing \/ last'.e.keyCode = IMEKeyCode)

\* the step is a click on the send control
ClickStep == last'.type = "click"

\* the step is a Backspace reaching handleKeyPress
BackspaceStep == last'.type = "keypress" /\ last'.e.key = "Backspace"

\* the step is a text-change event
InputStep == last'.type = "input"

\* s without its element at 0-based index i
RemoveAt(s, i) ==
    [j \in 1..(Len(s) - 1) |-> IF j <= i THEN s[j] ELSE s[j + 1]]

Outcome(r) ==
    [inputValue |-> r.inputValue,
     warningMessage |-> r.warningMessage,
     isSendButtonDisabled |-> r.isSendButtonDisabled,
     effects |-> r.effects]

PlainEnter == [key |-> "Enter", isComposing |-> FALSE, keyCode |-> 13]

(* ----------------------------- properties ----------------------------- *)

\* C1: a submit by Enter or by the send control, made with a non-empty
\* text, no warning and a field that reports itself valid, calls onSubmit
\* exactly once, with the untrimmed text held before the event, resets the
\* text only after that call, and leaves the text empty.
C1_ValidSubmitCallsOnceThenClears ==
    [][(/\ EnterStep \/ (ClickStep /\ ~props.disabled /\ ~isSendButtonDisabled)
        /\ inputValue # <<>>
        /\ warningMessage = ""
        /\ ~FieldSaidInvalid(last'.effects))
       => (/\ Len(CallsTo("onSubmit", last'.effects)) = 1
           /\ CallsTo("onSubmit", last'.effects)[1].arg = inputValue
           /\ Positions("setInputValue", last'.effects) # {}
           /\ \A i \in Positions("onSubmit", last'.effects),
                 j \in Positions("setInputValue", last'.effects) :
                  i < j /\ last'.effects[j].arg = <<>>
           /\ inputValue' = <<>>)]_vars

\* C1 witness: Enter has just submitted a text with a leading space
C1_Witness ==
    /\ last.type = "keydown"
    /\ Len(CallsTo("onSubmit", last.effects)) = 1
    /\ CallsTo("onSubmit", last.effects)[1].arg = <<" ", "a">>
    /\ inputValue = <<>>

\* C2: a submit attempt by Enter or by the send control made while the
\* text is empty, a warning is active or the field reports itself invalid
\* calls onSubmit not at all and leaves text, warning and send-disabled
\* flag as they were.
C2_InvalidSubmitIgnored ==
    [][(/\ EnterStep \/ ComposingEnterStep \/ ClickStep
        /\ \/ inputValue = <<>>
           \/ warningMessage # ""
           \/ FieldSaidInvalid(last'.effects))
       => (/\ CallsTo("onSubmit", last'.effects) = <<>>
           /\ inputValue' = inputValue
           /\ warningMessage' = warningMessage
           /\ isSendButtonDisabled' = isSendButtonDisabled)]_vars

\* C2 witness: the send control was activated on a non-empty text without
\* warning, the field reported itself invalid, and the text is still there
C2_Witness ==
    /\ last.type = "click"
    /\ FieldSaidInvalid(last.effects)
    /\ inputValue # <<>>
    /\ warningMessage = ""

\* C3: after a text-change event whose value is longer than the configured
\* maxChars (a limit of at least one character), whatever
\* maxCharsWarningMessage is, the text is as before, the warning message
\* is non-empty and the send action is disabled.
C3_OverLimitRejectedWithWarning ==
    [][(/\ InputStep
        /\ props.maxChars # None
        /\ props.maxChars[1] > 0
        /\ Len(last'.arg) > props.maxChars[1])
       => (/\ inputValue' = inputValue
           /\ warningMessage' # ""
           /\ isSendButtonDisabled')]_vars

\* C4: after a text-change event whose value has at most maxChars
\* characters, or with maxChars unset, from any prior state, the text is
\* the new value, the warning is empty and the send action is enabled.
C4_WithinLimitAccepted ==
    [][(/\ InputStep
        /\ \/ props.maxChars = None
           \/ Len(last'.arg) <= props.maxChars[1])
       => (/\ inputValue' = last'.arg
           /\ warningMessage' = ""
           /\ ~isSendButtonDisabled')]_vars

\* C4 witness: a non-empty input of exactly maxChars characters is the
\* text, with no warning and the send action enabled
C4_Witness ==
    /\ last.type = "input"
    /\ props.maxChars # None
    /\ Len(last.arg) = props.maxChars[1]
    /\ last.arg # <<>>
    /\ inputValue = last.arg
    /\ warningMessage = ""
    /\ ~isSendButtonDisabled

\* C5: an Enter key-down during an IME composition (composing flag set, or
\* key code 229) calls onSubmit not at all and leaves the text.
C5_ComposingEnterNeverSubmits ==
    [][ComposingEnterStep
       => (/\ CallsTo("onSubmit", last'.effects) = <<>>
           /\ inputValue' = inputValue)]_vars

\* C5 witness: Enter with key code 229 and the composing flag unset came
\* on a submittable text, which is still there
C5_Witness ==
    /\ last.type = "keydown"
    /\ last.e = [key |-> "Enter", isComposing |-> FALSE, keyCode |-> IMEKeyCode]
    /\ inputValue # <<>>
    /\ warningMessage = ""
    /\ ~isSendButtonDisabled
    /\ last.effects = <<>>

\* C6: once an over-limit input is rejected (the send action is disabled),
\* every event other than a text-change within the limit leaves the send
\* action disabled and calls onSubmit not at all.
C6_BlockedUntilInputWithinLimit ==
    [][(/\ isSendButtonDisabled
        /\ ~(InputStep /\ Len(last'.arg) <= props.maxChars[1]))
       => (/\ isSendButtonDisabled'
           /\ CallsTo("onSubmit", last'.effects) = <<>>)]_vars

\* C7: Backspace with the cursor at p > 0 makes the text the previous text
\* without its character at index p-1 and puts the cursor at p-1; with
\* the cursor at 0 text and cursor stay.  In every state, also when text
\* and native field differ.
C7_BackspaceRemovesCharBeforeCursor ==
    [][BackspaceStep
       => IF selectionStart > 0
          THEN /\ selectionStart <= Len(inputValue)
               /\ inputValue' = RemoveAt(inputValue, selectionStart - 1)
               /\ selectionStart' = selectionStart - 1
          ELSE /\ inputValue' = inputValue
               /\ selectionStart' = selectionStart]_vars

\* C8: in every state of the mounted, enabled widget, Enter outside an IME
\* composition and the send control have the same outcome: the same
\* calls with the same arguments and the same text, warning and
\* send-disabled flag.
C8_EnterAndSendControlAgree ==
    (pc = "mounted" /\ ~props.disabled)
    => \A valid \in BOOLEAN, playOk \in BOOLEAN :
          Outcome(submitWhenEnter(St, props, audioRef, PlainEnter, valid, playOk))
              = Outcome(sendControl(St, props, audioRef, valid, playOk))

\* C9: a submit whose sound fails to play has still called onSubmit exactly
\* once and reset the text; and play is attempted only with the sound
\* enabled and an audio handle made on mount.
C9_PlaybackFailureDoesNotBlockSubmit ==
    [][/\ PlayRejected(last'.effects)
          => (/\ Len(CallsTo("onSubmit", last'.effects)) = 1
              /\ Positions("setInputValue", last'.effects) # {}
              /\ inputValue' = <<>>)
       /\ CallsTo("play", last'.effects) # <<>>
          => (props.sendMessageSound /\ audioRef # None)
       /\ (~props.sendMessageSound \/ audioRef = None)
          => CallsTo("play", last'.effects) = <<>>]_vars

\* C9 witness: the send control submitted, the sound failed to play, and
\* the text is reset
C9_Witness ==
    /\ last.type = "click"
    /\ PlayRejected(last.effects)
    /\ Len(CallsTo("onSubmit", last.effects)) = 1
    /\ inputValue = <<>>

\* C10: with maxChars configured (a limit of at least one character), in
\* every state the text has at most maxChars characters, and onSubmit is
\* never called with a longer text.
C10_TextNeverLongerThanMaxChars ==
    (props.maxChars # None /\ props.maxChars[1] > 0)
    => (/\ Len(inputValue) <= props.maxChars[1]
        /\ \A i \in Positions("onSubmit", last.effects) :
               Len(last.effects[i].arg) <= props.maxChars[1])

====
